---- MODULE Spec2Model ----
(***************************************************************************)
(* Model of the grammar of function-machine (src/parser.ts, class G) and   *)
(* of the parser-combinator engine it is built on.  The grammar is a       *)
(* translation of src/parser.ts: every static member of G is a definition  *)
(* of the same name whose body is the same combinator expression.  The     *)
(* engine (combinators.ts), the token type (lexer.ts) and the node         *)
(* constructors (ast.ts) are not among the sources; they are modelled from *)
(* section 4.1 of the specification and from the way the grammar's         *)
(* semantic actions index the engine's results.                            *)
(***************************************************************************)
EXTENDS Integers, Sequences, FiniteSets, TLC

VARIABLES input, pc, output, strays, prefixAccepted

vars == <<input, pc, output, strays, prefixAccepted>>

(***************************************************************************)
(* Bounds of the model.                                                    *)
(***************************************************************************)
MaxLen == 3
MaxParams == 2
MaxArgs == 2
MaxElems == 2
MaxBindings == 2

(***************************************************************************)
(* Tokens: { type, characters }.  characters is the sequence of the        *)
(* token's characters, so that indexing a string (x[0]) and parseInt are   *)
(* computed, not looked up.                                                *)
(***************************************************************************)
Tok(type, chars) == [type |-> type, characters |-> chars]

LP == Tok("LPAREN", <<"(">>)
RP == Tok("RPAREN", <<")">>)
LA == Tok("LANGLE", <<"<">>)
RA == Tok("RANGLE", <<">">>)
LB == Tok("LBRACKET", <<"[">>)
RB == Tok("RBRACKET", <<"]">>)
WS == Tok("IGNORE", <<" ">>)
N1 == Tok("NUMBER", <<"1">>)
N2 == Tok("NUMBER", <<"2">>)
N12 == Tok("NUMBER", <<"1", "2">>)
Sym(chars) == Tok("SYMBOL", chars)
SX == Sym(<<"x">>)
SY == Sym(<<"y">>)
FUN == Sym(<<"f", "u", "n">>)
LET_ == Sym(<<"l", "e", "t">>)
IF_ == Sym(<<"i", "f">>)

(***************************************************************************)
(* Values built by the engine and by the semantic actions.  Every value    *)
(* has the same five fields: node (the variant), type and chars (of a      *)
(* token or a string), kids (array elements or constructor arguments) and  *)
(* n (a number: a Num's value, arg_count, arity).                          *)
(***************************************************************************)
V(node, type, chars, kids, n) ==
  [node |-> node, type |-> type, chars |-> chars, kids |-> kids, n |-> n]

Undefined == V("undefined", "", <<>>, <<>>, 0)
TokenV(t) == V("Token", t.type, t.characters, <<>>, 0)
StringV(chars) == V("String", "", chars, <<>>, 0)
ArrayV(items) == V("Array", "", <<>>, items, 0)
ThrowV(msg) == V("Throw", "", <<msg>>, <<>>, 0)

IsThrow(v) == v.node = "Throw"

\* The first thrown error among the values, if any.
FirstThrow(vs) ==
  LET bad == {i \in 1..Len(vs) : IsThrow(vs[i])}
  IN  IF bad = {} THEN Undefined
      ELSE vs[CHOOSE i \in bad : \A j \in bad : i <= j]

\* new Node(kids..., {attr: n}): evaluating an argument that throws throws.
New(node, kids, n) ==
  IF IsThrow(FirstThrow(kids)) THEN FirstThrow(kids)
  ELSE V(node, "", <<>>, kids, n)

\* JavaScript x[i] (i counted from 0): an array's element, a string's
\* character, undefined for any other object or an index out of range, and a
\* TypeError when x is undefined.
Idx(x, i) ==
  CASE IsThrow(x) -> x
    [] x.node = "undefined" -> ThrowV("TypeError")
    [] x.node = "Array" /\ i < Len(x.kids) -> x.kids[i + 1]
    [] x.node = "String" /\ i < Len(x.chars) -> StringV(<<x.chars[i + 1]>>)
    [] OTHER -> Undefined

\* JavaScript a.concat(b) for an array a: b's elements when b is an array,
\* b itself as one element otherwise.
Concat(a, b) ==
  CASE IsThrow(a) -> a
    [] IsThrow(b) -> b
    [] b.node = "Array" -> ArrayV(a.kids \o b.kids)
    [] OTHER -> ArrayV(Append(a.kids, b))

\* x.length of an array (the semantic actions take it of arrays only).
Length(x) == Len(x.kids)

Digits == {"0", "1", "2", "3", "4", "5", "6", "7", "8", "9"}

DigitVal(c) ==
  CASE c = "0" -> 0 [] c = "1" -> 1 [] c = "2" -> 2 [] c = "3" -> 3
    [] c = "4" -> 4 [] c = "5" -> 5 [] c = "6" -> 6 [] c = "7" -> 7
    [] c = "8" -> 8 [] c = "9" -> 9

RECURSIVE ParseDigits(_, _)
ParseDigits(chars, acc) ==
  IF chars = <<>> \/ Head(chars) \notin Digits THEN acc
  ELSE ParseDigits(Tail(chars), 10 * acc + DigitVal(Head(chars)))

\* parseInt(s) for an unsigned s: the value of its leading digits; NaN (a Num
\* node marked "NaN") when it has none.
parseInt(chars) ==
  IF chars = <<>> \/ Head(chars) \notin Digits THEN V("Num", "", <<"NaN">>, <<>>, 0)
  ELSE V("Num", "", <<>>, <<>>, ParseDigits(chars, 0))

(***************************************************************************)
(* Parsers as data: the combinator expression a Parser object stands for.  *)
(***************************************************************************)
m(field, expected) == <<"m", field, expected>>
then(p, q) == <<"then", p, q>>
or(p, q) == <<"or", p, q>>
many(p) == <<"many", p>>
zero_or_more(p) == <<"zero_or_more", p>>
transformer(p, f) == <<"transformer", p, f>>
delay(rule) == <<"delay", rule>>

(***************************************************************************)
(* The grammar G of src/parser.ts.  A semantic action (the function given  *)
(* to .transformer) is a definition named after its production, and the    *)
(* production names it by that name.                                       *)
(***************************************************************************)
\* Matches the given word.
word(w) == m("characters", w)

RECURSIVE OrReduce(_, _)
OrReduce(previous, rest) ==
  IF rest = <<>> THEN previous
  ELSE OrReduce(or(previous, word(Head(rest))), Tail(rest))

\* x => x.characters
characters_action(x) == StringV(x.chars)

\* Matches any one of a set of words.
word_set(args) == transformer(OrReduce(word(Head(args)), Tail(args)), "characters")

\* Comes up often enough so might as well name it.
delayed_sexpr == delay("s_expr")

\* Number token.
num_action(x) == parseInt(x.chars)

num == transformer(m("type", "NUMBER"), "num")

\* Symbol token.
symb_action(x) == V("Symbol", "", x.chars, <<>>, 0)

symb == transformer(m("type", "SYMBOL"), "symb")

lparen == m("type", "LPAREN")

rparen == m("type", "RPAREN")

\* Another common operation: ( p )
parenthesize(p) == then(then(lparen, p), rparen)

\* (sym sym ... sym).
symbol_list_action(x) == Idx(x, 1)

symbol_list == transformer(parenthesize(many(symb)), "symbol_list")

\* (fun (sym sym sym) s-expr).
anonymous_func_action(x) ==
  LET args == Idx(x, 2)
      body == Idx(x, 3)
  IN  New("AnonymousFunction", <<args, body>>, Length(args))

anonymous_func ==
  transformer(parenthesize(then(then(word(<<"f", "u", "n">>), symbol_list), delayed_sexpr)),
              "anonymous_func")

\* ((fun ...) s-expr*).
func_application_action(x) ==
  LET func == Idx(x, 1)
      args == Idx(x, 2)
  IN  New("FunctionApplication", <<func, args>>, func.n - Length(args))

func_application ==
  transformer(parenthesize(then(then(anonymous_func, zero_or_more(delayed_sexpr)), rparen)),
              "func_application")

\* (applied-func s-expr*).
closure_action(x) ==
  LET applied_func == Idx(x, 1)
      args == Idx(x, 2)
  IN  New("ClosureApplication", <<applied_func, args>>, applied_func.n - Length(args))

closure ==
  transformer(parenthesize(then(func_application, zero_or_more(delayed_sexpr))), "closure")

\* The words of the builtin word-set.
BuiltinWords ==
  << <<"+">>, <<"-">>, <<"*">>, <<"/">>, <<"=">>, <<"%">>, <<"l", "t">>, <<"g", "t">>,
     <<"l", "t", "e">>, <<"g", "t", "e">> >>

\* switch(x[0]) over the string the word-set hands on: x[0] is its first
\* character, compared (===) with each case label.
builtins_action(x) ==
  LET c == Idx(x, 0)
      is(label) == c.node = "String" /\ c.chars = label
  IN  CASE is(<<"+">>) -> New("BuiltinPlus", <<>>, 2)
        [] is(<<"-">>) -> New("BuiltinMinus", <<>>, 2)
        [] is(<<"*">>) -> New("BuiltinTimes", <<>>, 2)
        [] is(<<"/">>) -> New("BuiltinDivide", <<>>, 2)
        [] is(<<"=">>) -> New("BuiltinEqual", <<>>, 2)
        [] is(<<"%">>) -> New("BuiltinModulo", <<>>, 2)
        [] is(<<"l", "t">>) -> New("BuiltinLessThan", <<>>, 2)
        [] is(<<"g", "t">>) -> New("BuiltinGreaterThan", <<>>, 2)
        [] is(<<"l", "t", "e">>) -> New("BuiltinLessThanEqual", <<>>, 2)
        [] is(<<"g", "t", "e">>) -> New("BuiltinGreaterThanEqual", <<>>, 2)
        [] is(<<"a", "n", "d">>) -> New("BuiltinAnd", <<>>, 2)
        [] is(<<"o", "r">>) -> New("BuiltinOr", <<>>, 2)
        [] is(<<"n", "o", "t">>) -> New("BuiltinNot", <<>>, 1)
        [] is(<<"x", "o", "r">>) -> New("BuiltinXor", <<>>, 1)
        [] OTHER -> ThrowV("Unknown builtin.")

\* Current set of builtin functions.
builtins == transformer(word_set(BuiltinWords), "builtins")

\* We currently single out builtin function application.
builtin_action(x) ==
  LET non_parens == Idx(x, 1)
      builtin_ == Idx(non_parens, 0)
      args == Idx(non_parens, 1)
  IN  New("BuiltinApplication", <<builtin_, args>>, 0)

builtin == transformer(parenthesize(then(builtins, zero_or_more(delayed_sexpr))), "builtin")

\* (if s-expr s-expr s-expr).
if_expression_action(x) ==
  LET test == Idx(x, 2)
      true_branch == Idx(x, 3)
      false_branch == Idx(x, 4)
  IN  New("IfExpression", <<test, true_branch, false_branch>>, 0)

if_expression ==
  transformer(parenthesize(then(then(then(word(<<"i", "f">>), delayed_sexpr), delayed_sexpr),
                                delayed_sexpr)),
              "if_expression")

langle == m("type", "LANGLE")

rangle == m("type", "RANGLE")

lbracket == m("type", "LBRACKET")

rbracket == m("type", "RBRACKET")

\* Tuple: <s-expr, ..., s-expr>.
tuple_action(x) == New("Tuple", <<Concat(ArrayV(<<Idx(x, 1)>>), Idx(x, 2))>>, 0)

tuple ==
  transformer(then(then(then(langle, delayed_sexpr), zero_or_more(delayed_sexpr)), rangle),
              "tuple")

\* TODO: Figure this out. Currently a wildcard.
pattern == delay("s_expr")

\* <pattern s-expr>.
binding_pair_action(x) ==
  LET variable == Idx(x, 1)
      value == Idx(x, 2)
  IN  New("BindingPair", <<variable, value>>, 0)

binding_pair ==
  transformer(then(then(then(langle, pattern), delayed_sexpr), rangle), "binding_pair")

\* (let <var s-expr>* s-expr).
let_expression_action(x) ==
  LET binding_pairs == Idx(x, 2)
      body == Idx(x, 3)
  IN  New("LetExpressions", <<binding_pairs, body>>, 0)

let_expression ==
  transformer(parenthesize(then(then(word(<<"l", "e", "t">>), many(binding_pair)),
                                delayed_sexpr)),
              "let_expression")

\* The list action with the first element forgotten: only the repetition's
\* values are kept.
non_empty_data_list_action_rest_only(x) == New("List", <<Idx(x, 2)>>, 0)

\* List: [s-expr, ..., s-expr].
non_empty_data_list_action(x) ==
  New("List", <<Concat(ArrayV(<<Idx(x, 1)>>), Idx(x, 2))>>, 0)

non_empty_data_list ==
  transformer(then(then(then(lbracket, delayed_sexpr), zero_or_more(delayed_sexpr)), rbracket),
              "non_empty_data_list")

\* Empty list: [].
empty_data_list_action(x) == New("List", <<ArrayV(<<>>)>>, 0)

empty_data_list == transformer(then(lbracket, rbracket), "empty_data_list")

\* Atomic expressions: a bunch of stuff.
atomic ==
  or(or(or(or(or(or(or(or(or(or(non_empty_data_list, empty_data_list), tuple), num),
    builtin), anonymous_func), if_expression), func_application),
    let_expression), closure), symb)

\* Non-empty list: (atomic s-expr*).
list_action(x) == Concat(ArrayV(<<Idx(x, 1)>>), Idx(x, 2))

list == transformer(parenthesize(then(atomic, zero_or_more(delayed_sexpr))), "list")

\* s_expr with the "empty list" alternative its comment names, written as a
\* repetition that may match nothing.
s_expr_with_empty_list == or(or(atomic, zero_or_more(atomic)), list)

\* s-expr: atomic | empty list | non-empty list.
s_expr == or(atomic, list)

\* The rule a Parser.delay(x => G.<rule>) resolves to when it is applied.
Resolve(rule) == CASE rule = "s_expr" -> s_expr

\* The function a .transformer was given, applied to the parser's value.
Transform(f, x) ==
  CASE f = "characters" -> characters_action(x)
    [] f = "num" -> num_action(x)
    [] f = "symb" -> symb_action(x)
    [] f = "symbol_list" -> symbol_list_action(x)
    [] f = "anonymous_func" -> anonymous_func_action(x)
    [] f = "func_application" -> func_application_action(x)
    [] f = "closure" -> closure_action(x)
    [] f = "builtins" -> builtins_action(x)
    [] f = "builtin" -> builtin_action(x)
    [] f = "if_expression" -> if_expression_action(x)
    [] f = "tuple" -> tuple_action(x)
    [] f = "binding_pair" -> binding_pair_action(x)
    [] f = "let_expression" -> let_expression_action(x)
    [] f = "non_empty_data_list" -> non_empty_data_list_action(x)
    [] f = "empty_data_list" -> empty_data_list_action(x)
    [] f = "list" -> list_action(x)

(***************************************************************************)
(* The combinator engine.  Applying a parser at a cursor gives a result:   *)
(* ok is "success" (value, new cursor), "fail" (cursor unchanged), "throw" *)
(* (a semantic action threw; value is the error) or "diverge" (the         *)
(* application would never return).  Two measurements ride along: depth,   *)
(* the deepest nesting of delayed rules reached, and stalled, whether some *)
(* delayed rule or alternative succeeded without moving the cursor.        *)
(* An ordered choice is the first of its alternatives, in order, that does *)
(* not fail; parsers have no side effects, so the alternatives after it,   *)
(* which the engine never applies, are left out of the result and of the   *)
(* measurements.                                                           *)
(***************************************************************************)
Res(ok, value, pos, depth, stalled) ==
  [ok |-> ok, value |-> value, pos |-> pos, depth |-> depth, stalled |-> stalled]

Max(a, b) == IF a >= b THEN a ELSE b

\* The predicate of a match on a token: x.type === T or x.characters === w.
Holds(p, t) == IF p[2] = "type" THEN t.type = p[3] ELSE t.characters = p[3]

\* sequence(A, B) hands on one flat list: the values of an operand that is
\* itself a sequence are spliced in, any other value (a repetition's array, a
\* semantic action's result) is one element.  This is the shape the semantic
\* actions of anonymous_func (x[2], x[3]), func_application and closure (x[1],
\* x[2]), if_expression (x[2] .. x[4]), let_expression (x[2], x[3]) and list
\* (x[1], x[2]) index; builtin's action alone indexes a nested pair (x[1][0],
\* x[1][1]).
Items(p, v) == IF p[1] = "then" THEN v.kids ELSE <<v>>

\* No rule can be nested deeper than this on a finite input unless the
\* recursion never ends: each nesting consumes a token first.
DepthLimit(toks) == Len(toks) + 1

\* The alternatives of an ordered choice a.or(b).or(c)..., first to last.
RECURSIVE Alternatives(_)
Alternatives(p) ==
  IF p[1] = "or" THEN Alternatives(p[2]) \o Alternatives(p[3]) ELSE <<p>>

MaxOf(S) == CHOOSE x \in S : \A y \in S : y <= x

RECURSIVE Apply(_, _, _, _)
RECURSIVE Repeat(_, _, _, _, _, _, _)

Apply(p, toks, pos, d) ==
  CASE p[1] = "m" ->
         IF pos < Len(toks) /\ Holds(p, toks[pos + 1])
         THEN Res("success", TokenV(toks[pos + 1]), pos + 1, d, FALSE)
         ELSE Res("fail", Undefined, pos, d, FALSE)
    [] p[1] = "then" ->
         LET a == Apply(p[2], toks, pos, d)
         IN  IF a.ok # "success" THEN [a EXCEPT !.pos = pos]
             ELSE LET b == Apply(p[3], toks, a.pos, d)
                      depth == Max(a.depth, b.depth)
                      stalled == a.stalled \/ b.stalled
                  IN  IF b.ok # "success"
                      THEN Res(b.ok, b.value, pos, depth, stalled)
                      ELSE Res("success", ArrayV(Items(p[2], a.value) \o Items(p[3], b.value)),
                               b.pos, depth, stalled)
    [] p[1] = "or" ->
         LET alts == Alternatives(p)
             tried == {<<i, Apply(alts[i], toks, pos, d)>> : i \in 1..Len(alts)}
             hits == {t \in tried : t[2].ok # "fail"}
             first == CHOOSE t \in hits : \A u \in hits : t[1] <= u[1]
             reached == IF hits = {} THEN tried ELSE {t \in tried : t[1] <= first[1]}
             depth == MaxOf({t[2].depth : t \in reached})
             stalled == \E t \in reached :
                          t[2].stalled \/ (t[2].ok = "success" /\ t[2].pos = pos)
         IN  IF hits = {} THEN Res("fail", Undefined, pos, depth, stalled)
             ELSE [first[2] EXCEPT !.depth = depth, !.stalled = stalled]
    [] p[1] = "many" ->
         LET r == Repeat(p[2], toks, pos, d, <<>>, d, FALSE)
         IN  IF r.ok = "success" /\ r.value.kids = <<>>
             THEN Res("fail", Undefined, pos, r.depth, r.stalled)
             ELSE r
    [] p[1] = "zero_or_more" -> Repeat(p[2], toks, pos, d, <<>>, d, FALSE)
    [] p[1] = "transformer" ->
         LET a == Apply(p[2], toks, pos, d)
         IN  IF a.ok # "success" THEN a
             ELSE LET v == Transform(p[3], a.value)
                  IN  IF IsThrow(v) THEN Res("throw", v, pos, a.depth, a.stalled)
                      ELSE [a EXCEPT !.value = v]
    [] p[1] = "delay" ->
         IF d + 1 > DepthLimit(toks) THEN Res("diverge", Undefined, pos, d + 1, FALSE)
         ELSE LET a == Apply(Resolve(p[2]), toks, pos, d + 1)
              IN  [a EXCEPT !.stalled = a.stalled \/ (a.ok = "success" /\ a.pos = pos)]

\* Apply p until it fails, collecting the values; the failing last attempt
\* consumes nothing.  An attempt that succeeds without moving the cursor would
\* be repeated for ever.
Repeat(p, toks, pos, d, acc, depth, stalled) ==
  LET r == Apply(p, toks, pos, d)
      dp == Max(depth, r.depth)
      st == stalled \/ r.stalled
  IN  CASE r.ok = "fail" -> Res("success", ArrayV(acc), pos, dp, st)
        [] r.ok = "success" /\ r.pos = pos -> Res("diverge", Undefined, pos, dp, TRUE)
        [] r.ok = "success" -> Repeat(p, toks, r.pos, d, Append(acc, r.value), dp, st)
        [] OTHER -> Res(r.ok, r.value, pos, dp, st)

\* The top-level driver: the whole token sequence must be consumed, or the
\* parse fails terminally; a thrown error is not caught.
parse_input(p, toks) ==
  LET r == Apply(p, toks, 0, 0)
  IN  CASE r.ok = "success" /\ r.pos = Len(toks) -> r
        [] r.ok = "success" -> Res("fail", Undefined, r.pos, r.depth, r.stalled)
        [] OTHER -> r

\* input.filter(x => !(x.type === TokenType.IGNORE))
filtered_tokens(toks) == SelectSeq(toks, LAMBDA x : ~(x.type = "IGNORE"))

\* Filter out all the ignorable tokens and parse the resulting list.
parse(toks) == parse_input(many(s_expr), filtered_tokens(toks))

(***************************************************************************)
(* The inputs G.parse is run on: every short token sequence, and the       *)
(* forms of the language up to the bounds.                                 *)
(***************************************************************************)
PLUS == Sym(<<"+">>)

SeqsUpTo(S, n) == UNION {[1..k -> S] : k \in 0..n}

RECURSIVE Cat(_)
Cat(ss) == IF ss = <<>> THEN <<>> ELSE Head(ss) \o Cat(Tail(ss))

Paren(s) == <<LP>> \o s \o <<RP>>

\* The tokens of s with an ignorable token after each.
RECURSIVE Spaced(_)
Spaced(s) == IF s = <<>> THEN <<>> ELSE <<Head(s), WS>> \o Spaced(Tail(s))

Alphabet == {LP, RP, LA, RA, LB, RB, N1, SX, FUN, PLUS, WS}

ShortInputs == SeqsUpTo(Alphabet, MaxLen)

Params(n) == [i \in 1..n |-> IF i % 2 = 1 THEN SX ELSE SY]

Bodies == {<<SX>>, <<N1>>, Paren(<<PLUS, SX, SY>>)}

ArgExprs == {<<N1>>, <<SX>>}

ArgLists == SeqsUpTo(ArgExprs, MaxArgs)

\* (fun (p1 .. pn) body)
AnonFun(n, body) == Paren(<<FUN>> \o Paren(Params(n)) \o body)

\* ((fun (p1 .. pn) body) a1 .. ak)
AppForm(n, body, args) == Paren(AnonFun(n, body) \o Cat(args))

AppForms == {AppForm(n, body, args) : n \in 1..MaxParams, body \in Bodies, args \in ArgLists}

\* (F b1 .. bm)
ClosureForm(F, args) == Paren(F \o Cat(args))

ClosureForms ==
  {ClosureForm(F, args) : F \in AppForms \cup {Append(A, RP) : A \in AppForms},
                          args \in ArgLists}

ParamTokens == {SX, N1, LB}

\* (fun (t1 .. tn) body)
FunForm(ts, body) == Paren(<<FUN>> \o Paren(ts) \o body)

FunForms == {FunForm(ts, body) : ts \in SeqsUpTo(ParamTokens, MaxParams), body \in Bodies}

RECURSIVE ToSet(_)
ToSet(seq) == IF seq = <<>> THEN {} ELSE {Head(seq)} \cup ToSet(Tail(seq))

\* (op e1 .. ek)
BuiltinForm(w, args) == Paren(<<Sym(w)>> \o Cat(args))

BuiltinForms == {BuiltinForm(w, args) : w \in ToSet(BuiltinWords), args \in ArgLists}

\* (if e e e)
IfForms == {Paren(<<IF_>> \o a \o b \o c) : a \in ArgExprs, b \in ArgExprs, c \in Bodies}

Elems ==
  {<<N12>>, <<SX>>, <<LB, RB>>, Paren(<<SX, N1>>), <<LA, N1, N2, RA>>, <<LB, LB, N1, RB, RB>>}

ElemLists == SeqsUpTo(Elems, MaxElems)

\* [e1 .. en]
DataList(es) == <<LB>> \o Cat(es) \o <<RB>>

DataLists == {DataList(es) : es \in ElemLists}

BindingPairs == {<<LA, SX, N1, RA>>, <<LA, SY>> \o Paren(<<SX, N2>>) \o <<RA>>}

BindingLists == SeqsUpTo(BindingPairs, MaxBindings)

LetBodies == Bodies \cup {<<LA, SX, SY, RA>>, <<LA, SX, SY, N1, RA>>}

\* (let <p1 v1> .. <pk vk> e)
LetForm(bs, e) == Paren(<<LET_>> \o Cat(bs) \o e)

LetForms == {LetForm(bs, e) : bs \in BindingLists, e \in LetBodies}

Forms ==
  AppForms \cup ClosureForms \cup FunForms \cup BuiltinForms \cup IfForms
    \cup DataLists \cup LetForms

Inputs == ShortInputs \cup Forms \cup {Spaced(f) : f \in DataLists \cup LetForms}

(***************************************************************************)
(* The state machine: a caller hands G.parse a token sequence and keeps    *)
(* what it returns; it may then append one stray right parenthesis to the  *)
(* sequence and parse again.                                               *)
(***************************************************************************)
MaxStrays == 1

NoOutput == Res("none", Undefined, 0, 0, FALSE)

Init ==
  /\ input \in Inputs
  /\ pc = "ready"
  /\ output = NoOutput
  /\ strays = 0
  /\ prefixAccepted = FALSE

\* G.parse(input)
Parse ==
  /\ pc = "ready"
  /\ output' = parse(input)
  /\ pc' = "done"
  /\ UNCHANGED <<input, strays, prefixAccepted>>

\* The caller appends a stray ")" to the sequence it has just parsed.
StrayRParen ==
  /\ pc = "done"
  /\ strays < MaxStrays
  /\ input' = Append(input, RP)
  /\ prefixAccepted' = (output.ok = "success")
  /\ strays' = strays + 1
  /\ output' = NoOutput
  /\ pc' = "ready"

Next == Parse \/ StrayRParen

Spec == Init /\ [][Next]_vars

(***************************************************************************)
(* Reading a result.                                                       *)
(***************************************************************************)
\* G.parse returned an AST of exactly one top-level node, of the given variant.
Single(o, node) ==
  o.ok = "success" /\ Len(o.value.kids) = 1 /\ o.value.kids[1].node = node

\* The one top-level node of a result.
Only(o) == o.value.kids[1]

\* The nodes an expression parses to, one per expression.
Parsed(es) == [i \in 1..Len(es) |-> Only(parse(es[i]))]

IsOpening(t) == t.type \in {"LPAREN", "LANGLE", "LBRACKET"}

\* The number of opening tokens of a sequence.
Openings(toks) == Len(SelectSeq(toks, IsOpening))

RECURSIVE ArgCountsNonNegative(_)
ArgCountsNonNegative(v) ==
  /\ v.node \in {"FunctionApplication", "ClosureApplication"} => v.n >= 0
  /\ \A i \in 1..Len(v.kids) : ArgCountsNonNegative(v.kids[i])

(***************************************************************************)
(* The claims.                                                             *)
(***************************************************************************)

\* C1: for n >= 1 declared parameters and k >= 0 arguments, G.parse on
\* ((fun (p1 .. pn) body) a1 .. ak) returns a single FunctionApplication node
\* whose arg_count is n - k.
C1_FunctionApplicationArgCount ==
  pc = "done" =>
    \A n \in 1..MaxParams, body \in Bodies, args \in ArgLists :
      input = AppForm(n, body, args) =>
        Single(output, "FunctionApplication") /\ Only(output).n = n - Len(args)

\* C2: for a function-application form F = ((fun (p1 .. pn) body) a1 .. ak),
\* whose node has arg_count r = n - k, and m >= 0 further arguments, G.parse on
\* (F b1 .. bm) returns a single ClosureApplication node whose arg_count is
\* r - m.
C2_ClosureApplicationArgCount ==
  pc = "done" =>
    \A n \in 1..MaxParams, body \in Bodies, args \in ArgLists, more \in ArgLists :
      input = ClosureForm(AppForm(n, body, args), more) =>
        /\ Single(output, "ClosureApplication")
        /\ Only(output).n = (n - Len(args)) - Len(more)

\* C3: when G.parse accepts a token sequence T, G.parse on T followed by one
\* stray right parenthesis returns no AST.
C3_StrayRParenFails ==
  (pc = "done" /\ strays = 1 /\ prefixAccepted) => output.ok # "success"

\* C4: G.parse returns no AST for (fun (t1 .. tn) body) when some ti is not a
\* SYMBOL token.
C4_NonSymbolParametersFail ==
  pc = "done" =>
    \A ts \in SeqsUpTo(ParamTokens, MaxParams), body \in Bodies :
      (input = FunForm(ts, body) /\ \E i \in 1..Len(ts) : ts[i].type # "SYMBOL")
        => output.ok # "success"

\* C5: for every word op of the builtin word-set and k >= 0 arguments, G.parse
\* on (op e1 .. ek) raises no 'Unknown builtin.' fault and returns a single
\* BuiltinApplication node.  (The claim says more, about what the node holds;
\* this much of it is already refuted.)
C5_BuiltinApplicationNoFault ==
  pc = "done" =>
    \A w \in ToSet(BuiltinWords), args \in ArgLists :
      input = BuiltinForm(w, args) =>
        output.ok # "throw" /\ Single(output, "BuiltinApplication")

\* C6: for n >= 0 accepted expressions, G.parse on [e1 .. en] (ignorable tokens
\* or not between them) returns a single List node holding the n parsed
\* elements in order; [] gives a List of no elements.
C6_DataListHoldsElements ==
  (pc = "done" /\ filtered_tokens(input) \in DataLists) =>
    \A es \in ElemLists :
      filtered_tokens(input) = DataList(es) =>
        /\ Single(output, "List")
        /\ Only(output).kids[1].node = "Array"
        /\ Only(output).kids[1].kids = Parsed(es)

\* C6 witness: [12 []] has been parsed to a List of two elements, the number
\* 12 and the List of no elements that [] parses to.
C6_Witness ==
  /\ pc = "done"
  /\ input = DataList(<< <<N12>>, <<LB, RB>> >>)
  /\ Single(output, "List")
  /\ Len(Only(output).kids[1].kids) = 2
  /\ Only(output).kids[1].kids[1].n = 12
  /\ Only(output).kids[1].kids[2] = Only(parse(<<LB, RB>>))
  /\ Only(parse(<<LB, RB>>)).node = "List"
  /\ Only(parse(<<LB, RB>>)).kids[1].kids = <<>>

\* C7: in every AST G.parse returns, the arg_count of every FunctionApplication
\* and ClosureApplication node is zero or positive.
C7_ArgCountNeverNegative ==
  (pc = "done" /\ output.ok = "success") => ArgCountsNonNegative(output.value)

\* C8: G.parse on (let e) returns a single LetExpression node with no binding
\* pairs and body e.
C8_LetWithoutBindings ==
  pc = "done" =>
    \A e \in LetBodies :
      input = LetForm(<<>>, e) =>
        /\ Single(output, "LetExpressions")
        /\ Only(output).kids[1].kids = <<>>
        /\ Only(output).kids[2] = Only(parse(e))

\* C9: for k >= 1 binding pairs and any accepted body e, a two-expression
\* angle-bracket form included, G.parse on (let <p1 v1> .. <pk vk> e) returns a
\* single LetExpression node with exactly those k pairs and body e.
C9_LetBindingsThenBody ==
  pc = "done" =>
    \A bs \in BindingLists, e \in LetBodies :
      (Len(bs) >= 1 /\ input = LetForm(bs, e)) =>
        /\ Single(output, "LetExpressions")
        /\ Len(Only(output).kids[1].kids) = Len(bs)
        /\ Only(output).kids[2] = Only(parse(e))

====
